---- MODULE Spec2Model ----
(***************************************************************************)
(* A model of pqai-index: the index registry (core/storage.py), the index  *)
(* objects and readers (core/indexes.py), the search route (main.py) and   *)
(* the index builder (core/indexer.py).                                    *)
(*                                                                         *)
(* Strings that the code inspects (file names, index identifiers, name     *)
(* prefixes) are sequences of tokens: one token per character, except that *)
(* the words "faiss", "ann", "metadata" and "json" are single tokens.      *)
(***************************************************************************)
EXTENDS Integers, Sequences, FiniteSets, TLC

(***************************************************************************)
(* Bounds of the model.                                                    *)
(***************************************************************************)
\* the result counts n of a search request are 0..MaxN
MaxN == 2
\* the number of threads that call IndexStorage.get at the same time
NumThreads == 2
\* the batches given to FaissIndexCreator.create hold 0..MaxVectors vectors
MaxVectors == 2

(***************************************************************************)
(* Strings.                                                                *)
(***************************************************************************)
\* str.startswith
startswith(s, prefix) ==
    /\ Len(prefix) <= Len(s)
    /\ SubSeq(s, 1, Len(prefix)) = prefix

\* str.endswith
endswith(s, suffix) ==
    /\ Len(suffix) <= Len(s)
    /\ SubSeq(s, Len(s) - Len(suffix) + 1, Len(s)) = suffix

RECURSIVE LastDot(_)
\* the position of the last "." of s, 0 when it has none
LastDot(s) ==
    IF s = <<>> THEN 0
    ELSE IF s[Len(s)] = "." THEN Len(s)
    ELSE LastDot(SubSeq(s, 1, Len(s) - 1))

\* ".".join(name.split(".")[:-1]): the name without its last extension
StripExtension(name) ==
    IF LastDot(name) = 0 THEN <<>> ELSE SubSeq(name, 1, LastDot(name) - 1)

\* os.environ as the tests set it: both flags are "1"
TestEnviron == [USE_FAISS_INDEXES |-> "1", USE_ANNOY_INDEXES |-> "1"]

\* the values a flag is given: enabled, disabled, and set to nothing
FlagValues == { "1", "0", "" }

\* the module's flags: os.environ["USE_FAISS_INDEXES"] and
\* os.environ["USE_ANNOY_INDEXES"], strings as the environment holds them
USE_FAISS_INDEXES(e) == e.USE_FAISS_INDEXES
USE_ANNOY_INDEXES(e) == e.USE_ANNOY_INDEXES

\* Python's truth value of a string
Truthy(s) == s # ""

(***************************************************************************)
(* The index folder.  disk maps each file name of the folder to what the   *)
(* file holds: [fmt, data].  A backend file (fmt "faiss" or "ann") holds   *)
(* its vectors; a metadata file holds a JSON value, either an array of     *)
(* labels (fmt "list") or an object with a "labels" member (fmt "dict",    *)
(* the object FaissIndexCreator writes).                                   *)
(***************************************************************************)
IndexNames == { <<"A">>, <<"A", ".", "1">>, <<"B", ".", "1">> }

\* the vectors (of one dimension) and the labels of the index named id
VectorsOf(id) ==
    IF id = <<"A">> THEN <<0, 4>>
    ELSE IF id = <<"A", ".", "1">> THEN <<1>>
    ELSE <<2, 3>>

\* the vectors of the .ann file of an index, which are not those of its
\* .faiss file
AnnVectorsOf(id) == <<7>>

LabelsOf(id) ==
    IF id = <<"A">> THEN <<"a0", "a1">>
    ELSE IF id = <<"A", ".", "1">> THEN <<"x0">>
    ELSE <<"b0", "b1">>

\* which files an identifier has in the folder: its backend files and the
\* kind of its metadata file.  The metadata file is not read when there is no
\* .faiss file, so one kind stands for all there.
Layouts ==
    { l \in [backends : SUBSET {"faiss", "ann"}, meta : {"none", "list", "dict"}] :
        /\ l.backends = {} => l.meta = "none"
        /\ l.backends = {"ann"} => l.meta = "list" }

\* the folders of the model: "A" in every layout, "A.1" and "B.1" in a few
LayoutsOf(id) ==
    IF id = <<"A">> THEN Layouts
    ELSE IF id = <<"A", ".", "1">>
    THEN { l \in Layouts : l.backends \subseteq {"faiss"} /\ l.meta # "dict" }
    ELSE { l \in Layouts : Cardinality(l.backends) <= 1 /\ l.meta \in {"none", "list"}
                            /\ (l.backends = {"faiss"} => l.meta = "list") }

FilesOf(id, l) ==
    { <<id \o <<".", b>>,
        [fmt |-> b, data |-> IF b = "faiss" THEN VectorsOf(id) ELSE AnnVectorsOf(id)]>> :
        b \in l.backends }
    \cup (IF l.meta = "none" THEN {}
          ELSE { <<id \o <<".", "metadata", ".", "json">>,
                   [fmt |-> l.meta, data |-> LabelsOf(id)]>> })

DiskOf(pairs) ==
    [ f \in { p[1] : p \in pairs } |-> (CHOOSE p \in pairs : p[1] = f)[2] ]

\* the sequences that list every element of S once: the orders in which a
\* Python set of S may be iterated
Orders(S) ==
    { s \in [1..Cardinality(S) -> S] : \A i, j \in 1..Cardinality(S) : s[i] = s[j] => i = j }

VARIABLES
    disk,        \* the index folder: file name -> [fmt, data]
    _available,  \* IndexStorage._available, in the set's iteration order
    cache,       \* IndexStorage.cache: identifier -> Index
    made,        \* identifier -> number of Index objects built for it so far
    server,      \* main.py as a process: "down", "up" or "crashed"
    indexes,     \* main.py's `indexes`, the list built at startup
    last,        \* the outcome of the last completed call
    th,          \* the threads inside IndexStorage.get: where each is, its locals
    saveDir,     \* the folder FaissIndexCreator writes to: file name -> [fmt, data]
    environ,     \* os.environ: the two flags read when core/storage.py is imported
    faiss_index, \* one FaissIndex object: _index, _labels, _index2label, _dims
    callers,     \* the threads that call add_vectors and search on faiss_index
    other_storage        \* a second IndexStorage object of the process: _folder, _available

\* the FaissIndex object and its callers
indexVars == <<faiss_index, callers>>

vars == <<disk, _available, cache, made, server, indexes, last, th, saveDir,
          environ, faiss_index, callers, other_storage>>

(***************************************************************************)
(* IndexStorage                                                            *)
(***************************************************************************)
\* IndexStorage._discover_indexes: the identifiers of the folder's backend
\* files of the enabled kinds
_discover_indexes(d, e) ==
    LET files == DOMAIN d
        index_files ==
            (IF Truthy(USE_FAISS_INDEXES(e))
                THEN { f \in files : endswith(f, <<".", "faiss">>) } ELSE {})
            \cup
            (IF Truthy(USE_ANNOY_INDEXES(e))
                THEN { f \in files : endswith(f, <<".", "ann">>) } ELSE {})
    IN  { StripExtension(f) : f \in index_files }

NoIndex == [oid |-> <<<<>>, 0>>, cls |-> "None", name |-> <<>>,
            vecs |-> <<>>, items |-> [fmt |-> "none", data |-> <<>>]]

\* FaissIndexReader.read_from_files; the k-th Index object built for `name`
FaissIndexReader_read_from_files(d, index_file, json_file, name, k) ==
    IF index_file \notin DOMAIN d
    THEN [ok |-> FALSE, err |-> "RuntimeError", index |-> NoIndex]
    ELSE IF json_file \notin DOMAIN d
    THEN [ok |-> FALSE, err |-> "FileNotFoundError", index |-> NoIndex]
    ELSE [ok |-> TRUE, err |-> "",
          index |-> [oid |-> <<name, k>>, cls |-> "FaissIndex", name |-> name,
                     vecs |-> d[index_file].data, items |-> d[json_file]]]

\* AnnoyIndexReader(): __init__ requires dims and metric, and is given none
AnnoyIndexReader_init ==
    [ok |-> FALSE, err |-> "TypeError", index |-> NoIndex]

\* _get_index_file_path with the .ann file taken whenever there is one
_get_index_file_path_ann_first(index_id, d) ==
    LET ann_file == index_id \o <<".", "ann">>
        faiss_file == index_id \o <<".", "faiss">>
    IN  IF ann_file \in DOMAIN d THEN ann_file ELSE faiss_file

\* IndexStorage._get_index_file_path
_get_index_file_path(index_id, d) ==
    LET ann_file == index_id \o <<".", "ann">>
        faiss_file == index_id \o <<".", "faiss">>
    IN  IF faiss_file \in DOMAIN d THEN faiss_file ELSE ann_file

\* IndexStorage._cache_index
_cache_index(c, index_id, index) ==
    [ i \in DOMAIN c \cup {index_id} |-> IF i = index_id THEN index ELSE c[i] ]

\* IndexStorage._get_from_disk, from the reader's return on: the index is
\* cached and returned, or the reader's exception leaves the cache as it was
Loaded(r, index_id, c, m) ==
    IF r.ok
    THEN [ok |-> TRUE, err |-> "", index |-> r.index,
          cache |-> _cache_index(c, index_id, r.index),
          made |-> [m EXCEPT ![index_id] = @ + 1], read |-> <<index_id>>]
    ELSE [ok |-> FALSE, err |-> r.err, index |-> NoIndex,
          cache |-> c, made |-> m, read |-> <<index_id>>]

\* reader.read_from_files(index_file, json_file, name=index_id), with the
\* reader that IndexStorage._get_from_disk picks for index_file
ReadWith(index_file, index_id, m, d) ==
    IF endswith(index_file, <<"faiss">>)
    THEN FaissIndexReader_read_from_files(d, index_file,
             index_id \o <<".", "metadata", ".", "json">>, index_id, m[index_id] + 1)
    ELSE AnnoyIndexReader_init

\* IndexStorage._get_from_disk
_get_from_disk(index_id, c, m, d) ==
    Loaded(ReadWith(_get_index_file_path(index_id, d), index_id, m, d), index_id, c, m)

\* _get_one_index without its look into the cache
_get_one_index_uncached(index_id, c, m, d) ==
    _get_from_disk(index_id, c, m, d)

\* IndexStorage._get_one_index
_get_one_index(index_id, c, m, d) ==
    IF index_id \in DOMAIN c
    THEN [ok |-> TRUE, err |-> "", index |-> c[index_id],
          cache |-> c, made |-> m, read |-> <<>>]
    ELSE _get_from_disk(index_id, c, m, d)

\* the list [one.index] + rest.out of a comprehension that got `one` and then
\* `rest`; an exception in the rest ends the whole
GetJoin(one, rest) ==
    [err |-> rest.err,
     out |-> IF rest.err = "" THEN <<one.index>> \o rest.out ELSE <<>>,
     cache |-> rest.cache, made |-> rest.made, read |-> one.read \o rest.read]

RECURSIVE GetEach(_, _, _, _)
\* the comprehension once its first _get_one_index has returned `one`
GetRest(one, index_ids, d) ==
    IF ~one.ok
    THEN [err |-> one.err, out |-> <<>>, cache |-> one.cache,
          made |-> one.made, read |-> one.read]
    ELSE GetJoin(one, GetEach(index_ids, one.cache, one.made, d))

\* [self._get_one_index(i) for i in index_ids]: out is the list built, err the
\* exception that ended it ("" when none), read the identifiers loaded from disk
GetEach(index_ids, c, m, d) ==
    IF index_ids = <<>>
    THEN [err |-> "", out |-> <<>>, cache |-> c, made |-> m, read |-> <<>>]
    ELSE GetRest(_get_one_index(Head(index_ids), c, m, d), Tail(index_ids), d)

\* IndexStorage.available
available(avail) == avail

\* get with the folder scanned again at each call, in place of available()
get_rescanning(index_id, avail, c, m, d) ==
    LET Matches(i) == startswith(i, index_id)
        scanned == CHOOSE s \in Orders(_discover_indexes(d, TestEnviron)) : TRUE
    IN  GetEach(SelectSeq(scanned, Matches), c, m, d)

\* IndexStorage.get
get(index_id, avail, c, m, d) ==
    LET Matches(i) == startswith(i, index_id)
        index_ids == SelectSeq(available(avail), Matches)
    IN  GetEach(index_ids, c, m, d)

(***************************************************************************)
(* FaissIndex.search.  A search result is a pair <<label, score>>.         *)
(***************************************************************************)
Min(a, b) == IF a <= b THEN a ELSE b
Max(a, b) == IF a >= b THEN a ELSE b

\* Python's s[:n]
Slice(s, n) ==
    IF n >= 0 THEN SubSeq(s, 1, Min(n, Len(s)))
    ELSE SubSeq(s, 1, Max(0, Len(s) + n))

RECURSIVE InsertByScore(_, _)
\* t, sorted by its pairs' second member, with the pair x put after every pair
\* whose second member is not larger
InsertByScore(x, t) ==
    IF t = <<>> THEN <<x>>
    ELSE IF t[Len(t)][2] <= x[2] THEN Append(t, x)
    ELSE Append(InsertByScore(x, SubSeq(t, 1, Len(t) - 1)), t[Len(t)])

RECURSIVE SortByScore(_)
\* list.sort(key=lambda r: r[1]): ascending by the second member, and stable
SortByScore(s) ==
    IF s = <<>> THEN <<>>
    ELSE InsertByScore(s[Len(s)], SortByScore(SubSeq(s, 1, Len(s) - 1)))

\* the squared distance of two vectors of one dimension
Distance(q, v) == (q - v) * (q - v)

\* the number of dimensions of the vectors that the indexes of the model hold
Dims == 1

\* faiss.normalize_L2 on rows that have at most one coordinate other than 0:
\* that coordinate becomes its sign
normalize_L2(rows) ==
    [ i \in 1..Len(rows) |->
        [ j \in 1..Len(rows[i]) |->
            IF rows[i][j] > 0 THEN 1 ELSE IF rows[i][j] < 0 THEN -1 ELSE 0 ] ]

\* FaissIndex._preprocess: the vectors as a float32 matrix, normalised
_preprocess(vectors) == normalize_L2(vectors)

\* the backend's search(Q, n): the n stored vectors nearest to the query, as
\* pairs <<internal id, distance>> in ascending distance, ids counted from 0
BackendSearch(vecs, qvec, n) ==
    LET all == [ i \in 1..Len(vecs) |-> <<i - 1, Distance(qvec[1], vecs[i])>> ]
    IN  Slice(SortByScore(all), n)

\* items.__getitem__(i) of the value read from the metadata file
Resolve(items, i) ==
    IF items.fmt = "list"
    THEN IF i < Len(items.data)
         THEN [ok |-> TRUE, err |-> "", label |-> items.data[i + 1]]
         ELSE [ok |-> FALSE, err |-> "IndexError", label |-> ""]
    ELSE [ok |-> FALSE, err |-> "KeyError", label |-> ""]

\* [self._index2label(i) for i in ns[0]] zipped with the distances: the first
\* label that does not resolve raises
Labelled(items, found) ==
    IF \E k \in 1..Len(found) : ~Resolve(items, found[k][1]).ok
    THEN [ok |-> FALSE, res |-> <<>>,
          err |-> Resolve(items, found[CHOOSE k \in 1..Len(found) :
                      /\ ~Resolve(items, found[k][1]).ok
                      /\ \A j \in 1..(k - 1) : Resolve(items, found[j][1]).ok][1]).err]
    ELSE [ok |-> TRUE, err |-> "",
          res |-> [ k \in 1..Len(found) |->
                     <<Resolve(items, found[k][1]).label, found[k][2]>> ]]

\* FaissIndex.search.  _preprocess raises on a query that is no list of
\* numbers; a query of another length than the index's dimensions goes to
\* self._index.search(Q, n) as any other, and faiss raises there
\* (its Python wrapper asserts d == self.d)
FaissIndex_search(idx, qvec, n) ==
    IF qvec.type # "array"
    THEN [ok |-> FALSE, err |-> "TypeError", res |-> <<>>]
    ELSE IF Len(qvec.val) # Dims
    THEN [ok |-> FALSE, err |-> "AssertionError", res |-> <<>>]
    ELSE Labelled(idx.items, BackendSearch(idx.vecs, _preprocess(<<qvec.val>>)[1], n))

(***************************************************************************)
(* main.py                                                                 *)
(***************************************************************************)
\* the query strings of the model, and json.loads of each
Queries == { "not-json", "[0]", "[2]", "[0,0]", "{}" }

json_loads(query) ==
    IF query = "[0]" THEN [ok |-> TRUE, type |-> "array", val |-> <<0>>]
    ELSE IF query = "[2]" THEN [ok |-> TRUE, type |-> "array", val |-> <<2>>]
    ELSE IF query = "[0,0]" THEN [ok |-> TRUE, type |-> "array", val |-> <<0, 0>>]
    ELSE IF query = "{}" THEN [ok |-> TRUE, type |-> "object", val |-> <<>>]
    ELSE [ok |-> FALSE, type |-> "JSONDecodeError", val |-> <<>>]

\* the list [one.res] + rest.lists of a comprehension that searched idx and
\* then the rest
SearchJoin(idx, one, rest) ==
    [err |-> rest.err,
     lists |-> IF rest.err = "" THEN <<one.res>> \o rest.lists ELSE <<>>,
     searched |-> <<idx.oid>> \o rest.searched]

RECURSIVE SearchEach(_, _, _)
\* the comprehension once its first idx.search has returned `one`
SearchRest(idx, one, target_indexes, qvec, n) ==
    IF ~one.ok
    THEN [err |-> one.err, lists |-> <<>>, searched |-> <<idx.oid>>]
    ELSE SearchJoin(idx, one, SearchEach(target_indexes, qvec, n))

\* [idx.search(qvec, n) for idx in target_indexes]: the lists found (lists), the
\* exception that ended it (err), the indexes searched (searched)
SearchEach(target_indexes, qvec, n) ==
    IF target_indexes = <<>>
    THEN [err |-> "", lists |-> <<>>, searched |-> <<>>]
    ELSE SearchRest(Head(target_indexes),
                    FaissIndex_search(Head(target_indexes), qvec, n),
                    Tail(target_indexes), qvec, n)

RECURSIVE Concat(_)
\* the lists of a non-empty list of lists, joined
Concat(lists) ==
    IF lists = <<>> THEN <<>> ELSE Head(lists) \o Concat(Tail(lists))

\* functools.reduce(add, lists) with no initial value
reduce_add(lists) ==
    IF lists = <<>>
    THEN [ok |-> FALSE, err |-> "TypeError", val |-> <<>>]
    ELSE [ok |-> TRUE, err |-> "", val |-> Concat(lists)]

\* the value of `index` when the request names none
None == <<"None">>

\* results[:n] of a list that was not sorted
TopNUnsorted(results, n) ==
    Slice(results, n)

\* s from its last member to its first
Reverse(s) == [ k \in 1..Len(s) |-> s[Len(s) + 1 - k] ]

\* the first n of a sort that puts members of equal score in the reverse of
\* the order they came in
SortedTopNTiesReversed(results, n) ==
    Slice(SortByScore(Reverse(results)), n)

\* results.sort(key=lambda r: r[1]); results[:n]
SortedTopN(results, n) ==
    Slice(SortByScore(results), n)

\* what a request did: the response (status, detail, query, results), what it
\* went through (parsed, resolved, read, targets, searched, found) and the
\* registry as it leaves it (cache, made)
Response(c, m) ==
    [status |-> 0, detail |-> "", query |-> <<>>, results |-> <<>>,
     parsed |-> FALSE, resolved |-> FALSE, read |-> <<>>,
     searched |-> <<>>, targets |-> <<>>, found |-> <<>>,
     cache |-> c, made |-> m]

\* search, from results = reduce(add, ...) on
search_merge(rsp, qvec, n, results) ==
    IF ~results.ok
    THEN [rsp EXCEPT !.status = 500, !.detail = results.err]
    ELSE [rsp EXCEPT !.status = 200, !.query = qvec.val, !.found = results.val,
                     !.results = SortedTopN(results.val, n)]

\* search with an `except Exception` that answers with what it has
search_fanout_swallowing(rsp, qvec, n, s) ==
    IF s.err # ""
    THEN [rsp EXCEPT !.status = 200, !.query = qvec.val, !.searched = s.searched]
    ELSE search_merge([rsp EXCEPT !.searched = s.searched], qvec, n,
                      reduce_add(s.lists))

\* search, once every idx.search has run
search_fanout(rsp, qvec, n, s) ==
    IF s.err # ""
    THEN [rsp EXCEPT !.status = 500, !.detail = s.err, !.searched = s.searched]
    ELSE search_merge([rsp EXCEPT !.searched = s.searched], qvec, n,
                      reduce_add(s.lists))

\* search, once target_indexes is known (t); an exception of get is not caught
search_targets(rsp, qvec, n, index, t) ==
    IF t.err # ""
    THEN [rsp EXCEPT !.status = 500, !.detail = t.err, !.resolved = (index # None),
                     !.read = t.read, !.cache = t.cache, !.made = t.made]
    ELSE search_fanout([rsp EXCEPT !.resolved = (index # None), !.read = t.read,
                                   !.cache = t.cache, !.made = t.made,
                                   !.targets = t.out],
                       qvec, n, SearchEach(t.out, qvec, n))

\* search with an except clause that does not catch json.JSONDecodeError
search_parsed_uncaught(rsp, qvec, n, index, indexes_, avail, c, m, d) ==
    IF ~qvec.ok
    THEN [rsp EXCEPT !.status = 500, !.detail = "JSONDecodeError", !.parsed = TRUE]
    ELSE search_targets([rsp EXCEPT !.parsed = TRUE], qvec, n, index,
             IF index = None
             THEN [err |-> "", out |-> indexes_, cache |-> c, made |-> m, read |-> <<>>]
             ELSE get(index, avail, c, m, d))

\* search, once json.loads has returned or raised (qvec)
search_parsed(rsp, qvec, n, index, indexes_, avail, c, m, d) ==
    IF ~qvec.ok
    THEN [rsp EXCEPT !.status = 400, !.detail = "Invalid JSON query", !.parsed = TRUE]
    ELSE search_targets([rsp EXCEPT !.parsed = TRUE], qvec, n, index,
             IF index = None
             THEN [err |-> "", out |-> indexes_, cache |-> c, made |-> m, read |-> <<>>]
             ELSE get(index, avail, c, m, d))

\* search with the mode looked at after the query was served
search_mode_last(mode, query, n, index, indexes_, avail, c, m, d) ==
    IF mode = "vector"
    THEN search_parsed(Response(c, m), json_loads(query), n, index, indexes_,
                       avail, c, m, d)
    ELSE [search_parsed(Response(c, m), json_loads(query), n, index, indexes_,
                        avail, c, m, d)
            EXCEPT !.status = 400, !.detail = "Invalid search mode"]

\* the route /search
search(mode, query, n, index, indexes_, avail, c, m, d) ==
    IF mode = "vector"
    THEN search_parsed(Response(c, m), json_loads(query), n, index, indexes_,
                       avail, c, m, d)
    ELSE [Response(c, m) EXCEPT !.status = 400, !.detail = "Invalid search mode"]

\* the list [one.out] + rest.lists of the startup comprehension
StartupJoin(one, rest) ==
    [err |-> rest.err,
     lists |-> IF rest.err = "" THEN <<one.out>> \o rest.lists ELSE <<>>,
     cache |-> rest.cache, made |-> rest.made]

RECURSIVE GetEachName(_, _, _, _, _)
\* the startup comprehension once its first get has returned `one`
GetNameRest(one, names, avail, d) ==
    IF one.err # ""
    THEN [err |-> one.err, lists |-> <<>>, cache |-> one.cache, made |-> one.made]
    ELSE StartupJoin(one, GetEachName(names, avail, one.cache, one.made, d))

\* the startup comprehension ended after its first name
GetEachName_first_only(names, avail, c, m, d) ==
    IF names = <<>>
    THEN [err |-> "", lists |-> <<>>, cache |-> c, made |-> m]
    ELSE GetNameRest(get(Head(names), avail, c, m, d), <<>>, avail, d)

\* [index_storage.get(name) for name in index_storage.available()]
GetEachName(names, avail, c, m, d) ==
    IF names = <<>>
    THEN [err |-> "", lists |-> <<>>, cache |-> c, made |-> m]
    ELSE GetNameRest(get(Head(names), avail, c, m, d), Tail(names), avail, d)

\* indexes = reduce(add, lists): the list, or the exception that ends the process
StartupIndexes(r) ==
    IF r.err # "" THEN [ok |-> FALSE, err |-> r.err, val |-> <<>>]
    ELSE reduce_add(r.lists)

\* the process has made one IndexStorage only
NoStorage == [made |-> FALSE]

\* no FaissIndex object is watched, and nothing calls it
NoFaissIndex == [made |-> FALSE]
NoCallers == <<>>

Threads == 1..NumThreads

\* a thread that has not called get: pc is its place in the code, arg the prefix
\* it called get with, ids the identifiers it has still to get, out the list it
\* has built, index the Index it has read and not yet cached (a list of one, or
\* empty), err its exception
Idle == [pc |-> "idle", arg |-> <<>>, ids |-> <<>>, out |-> <<>>,
         index |-> <<>>, err |-> ""]

(***************************************************************************)
(* The state after IndexStorage(folder) is constructed.                    *)
(***************************************************************************)
Init ==
    /\ environ = TestEnviron
    /\ \E lay \in [IndexNames -> Layouts] :
          /\ \A i \in IndexNames : lay[i] \in LayoutsOf(i)
          /\ disk = DiskOf(UNION { FilesOf(i, lay[i]) : i \in IndexNames })
    /\ _available \in Orders(_discover_indexes(disk, environ))
    /\ cache = <<>>
    /\ made = [i \in IndexNames |-> 0]
    /\ server = "down"
    /\ indexes = <<>>
    /\ last = [op |-> "init"]
    /\ th = [t \in Threads |-> Idle]
    /\ saveDir = <<>>
    /\ faiss_index = NoFaissIndex
    /\ callers = NoCallers
    /\ other_storage = NoStorage

\* the name prefixes get is called with
Prefixes ==
    UNION { { SubSeq(i, 1, k) : k \in 0..Len(i) } : i \in IndexNames }
    \cup { <<"Z">>, <<"A", ".", "1", ".", "x">> }

\* a call storage.get(p) that returned or raised r
GetDone(p, r) ==
    /\ cache' = r.cache
    /\ made' = r.made
    /\ last' = [op |-> "get", arg |-> p, err |-> r.err, out |-> r.out,
                read |-> r.read, before |-> cache]
    /\ UNCHANGED <<disk, _available, server, indexes, th, saveDir, environ, other_storage, indexVars>>

\* a call storage.get(p)
Get(p) ==
    /\ server # "crashed"
    /\ GetDone(p, get(p, _available, cache, made, disk))

\* main.py's import, its comprehension having ended as r and its reduce as all
StartupDone(r, all) ==
    /\ cache' = r.cache
    /\ made' = r.made
    /\ server' = IF all.ok THEN "up" ELSE "crashed"
    /\ indexes' = all.val
    /\ last' = [op |-> "startup", err |-> all.err, before |-> cache]
    /\ UNCHANGED <<disk, _available, th, saveDir, environ, other_storage, indexVars>>

StartupOf(r) == StartupDone(r, StartupIndexes(r))

\* main.py at import: indexes = reduce(add, [index_storage.get(name) ...])
Startup ==
    /\ server = "down"
    /\ StartupOf(GetEachName(available(_available), _available, cache, made, disk))

Modes == { "vector", "text" }

\* the `index` values of the requests of the model
Filters == { None, <<"A">>, <<"B", ".", "1">>, <<"Z">> }

\* a request answered as r
SearchDone(mode, query, n, index, r) ==
    /\ cache' = r.cache
    /\ made' = r.made
    /\ last' = [op |-> "search", mode |-> mode, query |-> query, n |-> n,
                index |-> index, rsp |-> r, before |-> cache]
    /\ UNCHANGED <<disk, _available, server, indexes, th, saveDir, environ, other_storage, indexVars>>

\* a request GET /search?mode=..&query=..&n=..&index=..
Search(mode, query, n, index) ==
    /\ server = "up"
    /\ SearchDone(mode, query, n, index,
                  search(mode, query, n, index, indexes, _available, cache, made, disk))

Next ==
    \/ \E p \in Prefixes : Get(p)
    \/ Startup
    \/ \E mode \in Modes, query \in Queries, n \in 0..MaxN, index \in Filters :
          Search(mode, query, n, index)

Spec == Init /\ [][Next]_vars

(***************************************************************************)
(* IndexStorage.get called by several threads at once.  A thread may be    *)
(* switched out between any two of its steps; the steps are the statements *)
(* of get, _get_one_index and _get_from_disk that read or write the cache. *)
(***************************************************************************)
\* the prefixes the threads call get with
ThreadPrefixes == { <<"A">>, <<"A", ".", "1">> }

\* get, line 58: index_ids = [i for i in self.available() if i.startswith(..)]
TCall(t, p) ==
    LET Matches(i) == startswith(i, p)
    IN  /\ th[t].pc = "idle"
        /\ th' = [th EXCEPT ![t] = [Idle EXCEPT !.pc = "check", !.arg = p,
                     !.ids = SelectSeq(available(_available), Matches)]]
        /\ UNCHANGED <<disk, _available, cache, made, server, indexes, last, saveDir, environ, other_storage, indexVars>>

\* get, line 60: the comprehension is exhausted and the list is returned
TReturn(t) ==
    /\ th[t].pc = "check"
    /\ th[t].ids = <<>>
    /\ th' = [th EXCEPT ![t].pc = "done"]
    /\ UNCHANGED <<disk, _available, cache, made, server, indexes, last, saveDir, environ, other_storage, indexVars>>

\* _get_one_index, lines 64-66: the cached index, or on to _get_from_disk
TCheck(t) ==
    /\ th[t].pc = "check"
    /\ th[t].ids # <<>>
    /\ th' = IF Head(th[t].ids) \in DOMAIN cache
             THEN [th EXCEPT ![t].out = Append(@, cache[Head(th[t].ids)]),
                             ![t].ids = Tail(@)]
             ELSE [th EXCEPT ![t].pc = "load"]
    /\ UNCHANGED <<disk, _available, cache, made, server, indexes, last, saveDir, environ, other_storage, indexVars>>

\* _get_from_disk, lines 70-77, the reader having returned or raised r
TReadDone(t, r) ==
    /\ th' = IF r.ok
             THEN [th EXCEPT ![t].pc = "cache", ![t].index = <<r.index>>]
             ELSE [th EXCEPT ![t].pc = "done", ![t].err = r.err, ![t].out = <<>>]
    /\ made' = IF r.ok THEN [made EXCEPT ![Head(th[t].ids)] = @ + 1] ELSE made
    /\ UNCHANGED <<disk, _available, cache, server, indexes, last, saveDir, environ, other_storage, indexVars>>

\* _get_from_disk, lines 70-77: the files are read and the Index is built
TRead(t) ==
    /\ th[t].pc = "load"
    /\ TReadDone(t, ReadWith(_get_index_file_path(Head(th[t].ids), disk),
                             Head(th[t].ids), made, disk))

\* _get_from_disk, lines 78-82: self._cache_index(index_id, index); return index
TCache(t) ==
    /\ th[t].pc = "cache"
    /\ cache' = _cache_index(cache, Head(th[t].ids), th[t].index[1])
    /\ th' = [th EXCEPT ![t].pc = "check", ![t].out = Append(@, th[t].index[1]),
                        ![t].ids = Tail(@), ![t].index = <<>>]
    /\ UNCHANGED <<disk, _available, made, server, indexes, last, saveDir, environ, other_storage, indexVars>>

NextThreads ==
    \E t \in Threads :
        \/ \E p \in ThreadPrefixes : TCall(t, p)
        \/ TCheck(t)
        \/ TRead(t)
        \/ TCache(t)
        \/ TReturn(t)

SpecThreads == Init /\ [][NextThreads]_vars

(***************************************************************************)
(* FaissIndexCreator (core/indexer.py).  A batch is what `vectors` is: an  *)
(* ndarray or not, its dtype, the length of its shape and its rows (of one *)
(* dimension).  b is the build so far: the exception that ended it (err),  *)
(* the calls made on the backend and the file system (ops), the vectors    *)
(* trained on and added, and the files of save_dir.                        *)
(***************************************************************************)
\* a FaissIndexCreator that has the attribute `normalize` that create reads
CreatorAttributesWithNormalize ==
    { "_factory_string", "_normalize", "normalize", "create", "_save" }

\* the attributes of a FaissIndexCreator object: __init__ sets the two fields
CreatorAttributes == { "_factory_string", "_normalize", "create", "_save" }

\* which call into faiss or the file system raises, if any
Faults == { "none", "index_factory", "train", "add", "write_index", "open", "dump" }

Batch(isarray, dtype, ndim, k) ==
    [isarray |-> isarray, dtype |-> dtype, ndim |-> ndim,
     rows |-> [ i \in 1..k |-> <<2 * i - 3>> ]]

Batches ==
    { Batch(TRUE, "float32", 2, k) : k \in 0..MaxVectors }
    \cup { Batch(FALSE, "float32", 2, 1), Batch(TRUE, "float64", 2, 1),
           Batch(TRUE, "float32", 1, 1) }

\* the label list of length k
LabelList(k) == [ i \in 1..k |-> IF i % 2 = 1 THEN "p" ELSE "q" ]

\* the last n_train vectors in place of the first
SampleFromEnd(rows, n_train) ==
    IF n_train = <<>> THEN rows
    ELSE SubSeq(rows, Max(1, Len(rows) - n_train[1] + 1), Len(rows))

\* vectors[:n_train]; n_train is <<>> for None and <<k>> for the number k
Sample(rows, n_train) ==
    IF n_train = <<>> THEN rows ELSE Slice(rows, n_train[1])

Build(files) ==
    [err |-> "", ops |-> <<>>, vectors |-> <<>>, trained |-> <<>>, added |-> <<>>,
     files |-> files]

\* create without its assertion on the two lengths
AssertedWithoutLengths(b, vectors, labels) ==
    IF /\ vectors.isarray
       /\ vectors.dtype = "float32"
       /\ vectors.ndim = 2
    THEN [b EXCEPT !.vectors = vectors.rows]
    ELSE [b EXCEPT !.err = "AssertionError"]

\* create, lines 38-41: the four assertions
Asserted(b, vectors, labels) ==
    IF /\ vectors.isarray
       /\ vectors.dtype = "float32"
       /\ vectors.ndim = 2
       /\ Len(vectors.rows) = Len(labels)
    THEN [b EXCEPT !.vectors = vectors.rows]
    ELSE [b EXCEPT !.err = "AssertionError"]

\* create, line 44: index = faiss.index_factory(n_dims, self._factory_string)
Factoried(b, fault) ==
    IF b.err # "" THEN b
    ELSE IF fault = "index_factory" THEN [b EXCEPT !.err = "RuntimeError"]
    ELSE [b EXCEPT !.ops = Append(@, "index_factory")]

\* create, lines 46-47: if self._normalize: faiss.normalize_L2(vectors)
Normalized(b, normalize) ==
    IF b.err # "" \/ ~normalize THEN b
    ELSE [b EXCEPT !.ops = Append(@, "normalize_L2"),
                   !.vectors = normalize_L2(b.vectors)]

\* create, line 49: index.train(vectors[:n_train])
Trained(b, n_train, fault) ==
    IF b.err # "" THEN b
    ELSE IF fault = "train" \/ Sample(b.vectors, n_train) = <<>>
    THEN [b EXCEPT !.err = "RuntimeError"]
    ELSE [b EXCEPT !.ops = Append(@, "train"),
                   !.trained = Sample(b.vectors, n_train)]

\* create, line 50: index.add(vectors)
Added(b, fault) ==
    IF b.err # "" THEN b
    ELSE IF fault = "add" THEN [b EXCEPT !.err = "RuntimeError"]
    ELSE [b EXCEPT !.ops = Append(@, "add"), !.added = b.vectors]

\* create, lines 51-58: config = {..., "normalized": self.normalize, ...}
Configured(b, attributes) ==
    IF b.err # "" THEN b
    ELSE IF "normalize" \notin attributes THEN [b EXCEPT !.err = "AttributeError"]
    ELSE b

\* files, with file `name` holding `content`
WriteFile(files, name, content) ==
    [ f \in DOMAIN files \cup {name} |-> IF f = name THEN content ELSE files[f] ]

\* _save, line 64: faiss.write_index(index, f"{save_dir}/{name}.faiss")
IndexWritten(b, name, fault) ==
    IF b.err # "" THEN b
    ELSE IF fault = "write_index" THEN [b EXCEPT !.err = "RuntimeError"]
    ELSE [b EXCEPT !.ops = Append(@, "write_index"),
                   !.files = WriteFile(@, name \o <<".", "faiss">>,
                                       [fmt |-> "faiss", data |-> b.added])]

\* _save, line 65: open(f"{save_dir}/{name}.metadata.json", "w") truncates or
\* creates the file
MetadataOpened(b, name, fault) ==
    IF b.err # "" THEN b
    ELSE IF fault = "open" THEN [b EXCEPT !.err = "OSError"]
    ELSE [b EXCEPT !.ops = Append(@, "open"),
                   !.files = WriteFile(@, name \o <<".", "metadata", ".", "json">>,
                                       [fmt |-> "empty", data |-> <<>>])]

\* _save, line 66: json.dump(config, fp)
MetadataDumped(b, name, labels, fault) ==
    IF b.err # "" THEN b
    ELSE IF fault = "dump" THEN [b EXCEPT !.err = "OSError"]
    ELSE [b EXCEPT !.ops = Append(@, "dump"),
                   !.files = WriteFile(@, name \o <<".", "metadata", ".", "json">>,
                                       [fmt |-> "dict", data |-> labels])]

\* FaissIndexCreator._save
_save(b, name, labels, fault) ==
    MetadataDumped(MetadataOpened(IndexWritten(b, name, fault), name, fault),
                   name, labels, fault)

\* FaissIndexCreator.create
create(name, vectors, labels, n_train, normalize, fault, files) ==
    _save(Configured(Added(Trained(Normalized(Factoried(
              Asserted(Build(files), vectors, labels),
              fault), normalize), n_train, fault), fault), CreatorAttributes),
          name, labels, fault)

\* a call of create that ended as b
CreateDone(name, vectors, labels, n_train, normalize, fault, b) ==
    /\ saveDir' = b.files
    /\ last' = [op |-> "create", name |-> name, vectors |-> vectors,
                labels |-> labels, n_train |-> n_train, normalize |-> normalize,
                fault |-> fault, err |-> b.err, ops |-> b.ops,
                trained |-> b.trained, added |-> b.added, before |-> saveDir]
    /\ UNCHANGED <<disk, _available, cache, made, server, indexes, th, environ, other_storage, indexVars>>

\* FaissIndexCreator(factory_string, normalize).create(name, vectors, labels,
\* n_train, save_dir)
Create(name, vectors, labels, n_train, normalize, fault) ==
    CreateDone(name, vectors, labels, n_train, normalize, fault,
               create(name, vectors, labels, n_train, normalize, fault, saveDir))

\* the pair of files of an index built earlier
BuiltPair(name) ==
    WriteFile(WriteFile(<<>>, name \o <<".", "faiss">>,
                        [fmt |-> "faiss", data |-> <<<<1>>>>]),
              name \o <<".", "metadata", ".", "json">>,
              [fmt |-> "dict", data |-> <<"old">>])

\* a process that builds indexes: save_dir is empty or holds an earlier build
InitBuild ==
    /\ disk = <<>>
    /\ _available = <<>>
    /\ cache = <<>>
    /\ made = [i \in IndexNames |-> 0]
    /\ server = "down"
    /\ indexes = <<>>
    /\ last = [op |-> "init"]
    /\ th = [t \in Threads |-> Idle]
    /\ saveDir \in { <<>>, BuiltPair(<<"A">>) }
    /\ environ = TestEnviron
    /\ faiss_index = NoFaissIndex
    /\ callers = NoCallers
    /\ other_storage = NoStorage

NextBuild ==
    \E vectors \in Batches, k \in 0..(MaxVectors + 1), n_train \in { <<>>, <<1>> },
       normalize \in BOOLEAN, fault \in Faults :
        Create(<<"A">>, vectors, LabelList(k), n_train, normalize, fault)

SpecBuild == InitBuild /\ [][NextBuild]_vars

(***************************************************************************)
(* One FaissIndex object (core/indexes.py) with a thread that calls        *)
(* add_vectors on it and a thread that calls search on it.  A thread may   *)
(* be switched out between any two statements of the two methods.  The     *)
(* backend (_index) is None or holds its vectors, each of one dimension;   *)
(* _labels is None or a list.                                              *)
(***************************************************************************)
\* the calls of add_vectors in a run
MaxAdds == 2

\* self._index = None, and a faiss index that holds vecs
NoBackend == [none |-> TRUE, trained |-> FALSE, vecs |-> <<>>]
Backend(trained, vecs) == [none |-> FALSE, trained |-> trained, vecs |-> vecs]

\* self._labels = None, and a list of labels
NoLabels == [none |-> TRUE, list |-> <<>>]
LabelsList(list) == [none |-> FALSE, list |-> list]

\* FaissIndex.__init__
FaissIndex_init(index, resolver_fn, name) ==
    [made |-> TRUE, _id |-> name, _index |-> index, _index2label |-> resolver_fn,
     _labels |-> NoLabels, _dims |-> <<>>]

\* the FaissIndex that FaissIndexReader.read_from_files returned as r
FaissIndexRead(r) ==
    FaissIndex_init(Backend(TRUE, r.index.vecs), r.index.items, r.index.name)

\* a folder with the two files of the index "A"
FolderOfA == DiskOf(FilesOf(<<"A">>, [backends |-> {"faiss"}, meta |-> "list"]))

\* the FaissIndex objects of the model: FaissIndex(None, [].__getitem__, "N"),
\* and the index "A" loaded from its files
FaissIndexes ==
    { FaissIndex_init(NoBackend, [fmt |-> "list", data |-> <<>>], <<"N">>),
      FaissIndexRead(FaissIndexReader_read_from_files(FolderOfA,
          <<"A", ".", "faiss">>, <<"A", ".", "metadata", ".", "json">>, <<"A">>, 1)) }

\* the two threads before their first call.  adder: the call's X and labels, the
\* failure set for it, its exception, the calls made.  searcher: the call's Q
\* and n, what self._index.search returned (found), the numbers of vectors and
\* of labels the object had at that moment (seen), its result and exception
IdleCallers ==
    [adder |-> [pc |-> "idle", X |-> <<>>, labels |-> <<>>, fault |-> "none",
                err |-> "", calls |-> 0],
     searcher |-> [pc |-> "idle", Q |-> <<>>, n |-> 0, found |-> <<>>,
                   seen |-> <<>>, res |-> <<>>, err |-> "", calls |-> 0]]

\* the number of vectors the backend holds (ntotal)
VectorCount(o) == Len(o._index.vecs)

\* the number of labels the object has: the length of _labels, or, while
\* _labels is None, of the list its resolver reads
LabelCount(o) ==
    IF o._labels.none THEN Len(o._index2label.data) ELSE Len(o._labels.list)

\* the batches add_vectors is called with: k vectors of one dimension
NewVectors(k) == [ i \in 1..k |-> <<3 * i>> ]
NewLabels(k) == [ i \in 1..k |-> IF i % 2 = 1 THEN "n1" ELSE "n2" ]

\* which call into faiss raises in a call of add_vectors, if any
AddFaults == { "none", "train", "add" }

\* add_vectors, lines 240-241: the assertion and X = self._preprocess(vectors);
\* normalize_L2 raises on a matrix without rows
AddCall(vectors, labels, fault) ==
    /\ callers.adder.pc = "idle"
    /\ callers.adder.calls < MaxAdds
    /\ callers' = [callers EXCEPT !.adder =
          IF Len(vectors) # Len(labels)
          THEN [@ EXCEPT !.err = "AssertionError", !.calls = @ + 1]
          ELSE IF vectors = <<>>
          THEN [@ EXCEPT !.err = "IndexError", !.calls = @ + 1]
          ELSE [pc |-> "init", X |-> _preprocess(vectors), labels |-> labels,
                fault |-> fault, err |-> "", calls |-> @.calls + 1]]
    /\ UNCHANGED <<disk, _available, cache, made, server, indexes, last, th, saveDir,
                   environ, other_storage, faiss_index>>

\* FaissIndex._init: _dims, _labels = [], _index = index_factory(..), train(X)
_init(o, X) ==
    [o EXCEPT !._dims = <<Len(X[1])>>, !._labels = LabelsList(<<>>),
              !._index = Backend(FALSE, <<>>)]

\* add_vectors, lines 242-243: if self._index is None: self._init(X)
AddInit ==
    /\ callers.adder.pc = "init"
    /\ IF ~faiss_index._index.none
       THEN /\ callers' = [callers EXCEPT !.adder.pc = "add"]
            /\ UNCHANGED faiss_index
       ELSE IF callers.adder.fault = "train"
       THEN /\ faiss_index' = _init(faiss_index, callers.adder.X)
            /\ callers' = [callers EXCEPT !.adder.pc = "idle",
                                          !.adder.err = "RuntimeError"]
       ELSE /\ faiss_index' = [_init(faiss_index, callers.adder.X)
                                  EXCEPT !._index.trained = TRUE]
            /\ callers' = [callers EXCEPT !.adder.pc = "add"]
    /\ UNCHANGED <<disk, _available, cache, made, server, indexes, last, th, saveDir,
                   environ, other_storage>>

\* add_vectors, line 244: self._index.add(X); faiss raises on an index that was
\* not trained
AddToBackend ==
    /\ callers.adder.pc = "add"
    /\ IF callers.adder.fault = "add" \/ ~faiss_index._index.trained
       THEN /\ callers' = [callers EXCEPT !.adder.pc = "idle",
                                          !.adder.err = "RuntimeError"]
            /\ UNCHANGED faiss_index
       ELSE /\ faiss_index' = [faiss_index EXCEPT !._index.vecs =
                   @ \o [ i \in 1..Len(callers.adder.X) |-> callers.adder.X[i][1] ]]
            /\ callers' = [callers EXCEPT !.adder.pc = "labels"]
    /\ UNCHANGED <<disk, _available, cache, made, server, indexes, last, th, saveDir,
                   environ, other_storage>>

\* add_vectors, line 245: self._labels += labels; None has no +=
AddLabels ==
    /\ callers.adder.pc = "labels"
    /\ IF faiss_index._labels.none
       THEN /\ callers' = [callers EXCEPT !.adder.pc = "idle",
                                          !.adder.err = "TypeError"]
            /\ UNCHANGED faiss_index
       ELSE /\ faiss_index' = [faiss_index EXCEPT !._labels.list =
                                  @ \o callers.adder.labels]
            /\ callers' = [callers EXCEPT !.adder.pc = "save"]
    /\ UNCHANGED <<disk, _available, cache, made, server, indexes, last, th, saveDir,
                   environ, other_storage>>

\* add_vectors, line 246: self._save() reads self._index_dir, which no
\* FaissIndex has
AddSave ==
    /\ callers.adder.pc = "save"
    /\ callers' = [callers EXCEPT !.adder.pc = "idle",
                                  !.adder.err = "AttributeError"]
    /\ UNCHANGED <<disk, _available, cache, made, server, indexes, last, th, saveDir,
                   environ, other_storage, faiss_index>>

\* search, lines 226-227: Q = self._preprocess([qvec]);
\* ds, ns = self._index.search(Q, n)
SearchBackend(qvec, n) ==
    /\ callers.searcher.pc = "idle"
    /\ callers' = [callers EXCEPT !.searcher =
          IF faiss_index._index.none
          THEN [IdleCallers.searcher EXCEPT !.err = "AttributeError", !.calls = 1]
          ELSE IF ~faiss_index._index.trained
          THEN [IdleCallers.searcher EXCEPT !.err = "RuntimeError", !.calls = 1]
          ELSE [pc |-> "resolve", Q |-> _preprocess(<<qvec>>), n |-> n,
                found |-> BackendSearch(faiss_index._index.vecs,
                                        _preprocess(<<qvec>>)[1], n),
                seen |-> <<VectorCount(faiss_index), LabelCount(faiss_index),
                           callers.adder.pc>>,
                res |-> <<>>, err |-> "", calls |-> 1]]
    /\ UNCHANGED <<disk, _available, cache, made, server, indexes, last, th, saveDir,
                   environ, other_storage, faiss_index>>

\* the searcher once its labels are resolved, or not, as r
SearchResolved(r) ==
    callers' = [callers EXCEPT !.searcher.pc = "idle", !.searcher.res = r.res,
                               !.searcher.err = r.err]

\* search, lines 228-230: items = [self._index2label(i) for i in ns[0]] and
\* the list of (label, distance) pairs
SearchResolve ==
    /\ callers.searcher.pc = "resolve"
    /\ SearchResolved(Labelled(faiss_index._index2label, callers.searcher.found))
    /\ UNCHANGED <<disk, _available, cache, made, server, indexes, last, th, saveDir,
                   environ, other_storage, faiss_index>>

InitIndex ==
    /\ disk = <<>>
    /\ _available = <<>>
    /\ cache = <<>>
    /\ made = [i \in IndexNames |-> 0]
    /\ server = "down"
    /\ indexes = <<>>
    /\ last = [op |-> "init"]
    /\ th = [t \in Threads |-> Idle]
    /\ saveDir = <<>>
    /\ environ = TestEnviron
    /\ faiss_index \in FaissIndexes
    /\ callers = IdleCallers
    /\ other_storage = NoStorage

NextIndex ==
    \/ \E k, j \in 0..MaxVectors, fault \in AddFaults :
          AddCall(NewVectors(k), NewLabels(j), fault)
    \/ AddInit
    \/ AddToBackend
    \/ AddLabels
    \/ AddSave
    \/ \E qvec \in { <<0>>, <<2>> }, n \in 1..MaxN : SearchBackend(qvec, n)
    \/ SearchResolve

SpecIndex == InitIndex /\ [][NextIndex]_vars

(***************************************************************************)
(* The registry and the service while files of the index folder are        *)
(* written and removed by other processes.  Nothing in the code watches    *)
(* the folder: it is read by os.scandir in the constructor and by the      *)
(* readers when an identifier is loaded.                                   *)
(***************************************************************************)
\* the files that are written or removed while the process runs
ChangingFiles ==
    { <<"B", ".", "1", ".", "faiss">>, <<"B", ".", "1", ".", "metadata", ".", "json">> }

\* what a file holds once it is written anew
NewContent(f) ==
    IF endswith(f, <<"faiss">>) THEN [fmt |-> "faiss", data |-> <<5>>]
    ELSE [fmt |-> "list", data |-> <<"c0">>]

\* files without the file `name`
RemoveFile(files, name) == [ f \in DOMAIN files \ {name} |-> files[f] ]

\* the file f is created, or written over
FileWritten(f) ==
    /\ disk' = WriteFile(disk, f, NewContent(f))
    /\ disk' # disk
    /\ last' = [op |-> "write", file |-> f]
    /\ UNCHANGED <<_available, cache, made, server, indexes, th, saveDir, environ, other_storage,
                   indexVars>>

\* the file f is deleted
FileRemoved(f) ==
    /\ f \in DOMAIN disk
    /\ disk' = RemoveFile(disk, f)
    /\ last' = [op |-> "remove", file |-> f]
    /\ UNCHANGED <<_available, cache, made, server, indexes, th, saveDir, environ, other_storage,
                   indexVars>>

NextFolder ==
    \/ \E p \in Prefixes : Get(p)
    \/ Startup
    \/ \E n \in 1..MaxN, index \in Filters : Search("vector", "[0]", n, index)
    \/ \E f \in ChangingFiles : FileWritten(f)
    \/ \E f \in ChangingFiles : FileRemoved(f)

SpecFolder == Init /\ [][NextFolder]_vars

(***************************************************************************)
(* The registry under every setting of the two flags.                      *)
(***************************************************************************)
InitFlags ==
    /\ environ \in [USE_FAISS_INDEXES : FlagValues, USE_ANNOY_INDEXES : FlagValues]
    /\ \E lay \in [IndexNames -> Layouts] :
          /\ \A i \in IndexNames : lay[i] \in LayoutsOf(i)
          /\ disk = DiskOf(UNION { FilesOf(i, lay[i]) : i \in IndexNames })
    /\ _available \in Orders(_discover_indexes(disk, environ))
    /\ cache = <<>>
    /\ made = [i \in IndexNames |-> 0]
    /\ server = "down"
    /\ indexes = <<>>
    /\ last = [op |-> "init"]
    /\ th = [t \in Threads |-> Idle]
    /\ saveDir = <<>>
    /\ faiss_index = NoFaissIndex
    /\ callers = NoCallers
    /\ other_storage = NoStorage

NextFlags == \E p \in Prefixes : Get(p)

SpecFlags == InitFlags /\ [][NextFlags]_vars

(***************************************************************************)
(* The two places where a backend is trained: FaissIndexCreator.create,    *)
(* and FaissIndex.add_vectors on an object made without a backend.         *)
(***************************************************************************)
InitTrain ==
    /\ disk = <<>>
    /\ _available = <<>>
    /\ cache = <<>>
    /\ made = [i \in IndexNames |-> 0]
    /\ server = "down"
    /\ indexes = <<>>
    /\ last = [op |-> "init"]
    /\ th = [t \in Threads |-> Idle]
    /\ saveDir = <<>>
    /\ environ = TestEnviron
    /\ faiss_index \in FaissIndexes
    /\ callers = IdleCallers
    /\ other_storage = NoStorage

\* the batches that pass the assertions of create, with as many labels
TrainBatches == { Batch(TRUE, "float32", 2, k) : k \in 1..MaxVectors }

NextTrain ==
    \/ \E vectors \in TrainBatches, n_train \in { <<>>, <<1>> }, normalize \in BOOLEAN,
          fault \in { "none", "train", "add" } :
          Create(<<"A">>, vectors, LabelList(Len(vectors.rows)), n_train,
                 normalize, fault)
    \/ \E k \in 1..MaxVectors, fault \in AddFaults :
          AddCall(NewVectors(k), NewLabels(k), fault)
    \/ AddInit
    \/ AddToBackend
    \/ AddLabels
    \/ AddSave

SpecTrain == InitTrain /\ [][NextTrain]_vars

(***************************************************************************)
(* Two IndexStorage objects in one process, each over a folder of its own. *)
(* cache is an attribute of the class (storage.py:22), and __init__ does   *)
(* not give the object a dict of its own: both objects read and write the  *)
(* one dict.                                                               *)
(***************************************************************************)
\* the identifiers that the second folder may hold
OtherNames == { <<"A">>, <<"B", ".", "1">> }

\* the files of an index of the second folder: not what the first folder holds
\* under the same names
OtherFilesOf(id) ==
    { <<id \o <<".", "faiss">>, [fmt |-> "faiss", data |-> <<8>>]>>,
      <<id \o <<".", "metadata", ".", "json">>, [fmt |-> "list", data |-> <<"o0">>]>> }

\* the second folders of the model
OtherFolders ==
    { DiskOf(UNION { OtherFilesOf(i) : i \in S }) : S \in (SUBSET OtherNames) \ {{}} }

\* IndexStorage.__init__ of a second object, over `folder`
Construct(folder) ==
    /\ ~other_storage.made
    /\ server # "crashed"
    /\ \E avail \in Orders(_discover_indexes(folder, environ)) :
          other_storage' = [made |-> TRUE, _folder |-> folder, _available |-> avail]
    /\ last' = [op |-> "construct"]
    /\ UNCHANGED <<disk, _available, cache, made, server, indexes, th, saveDir,
                   environ, indexVars>>

\* a call get(p) of the second object that returned or raised r
GetOtherDone(p, r) ==
    /\ cache' = r.cache
    /\ made' = r.made
    /\ last' = [op |-> "get_other", arg |-> p, err |-> r.err, out |-> r.out,
                read |-> r.read, before |-> cache]
    /\ UNCHANGED <<disk, _available, server, indexes, th, saveDir, environ,
                   other_storage, indexVars>>

\* a call get(p) of the second object
GetOther(p) ==
    /\ other_storage.made
    /\ server # "crashed"
    /\ GetOtherDone(p, get(p, other_storage._available, cache, made,
                           other_storage._folder))

\* the prefixes the two objects are asked for
RegistryPrefixes == { <<>>, <<"A">>, <<"B">>, <<"A", ".", "1">> }

NextRegistries ==
    \/ \E folder \in OtherFolders : Construct(folder)
    \/ \E p \in RegistryPrefixes : Get(p)
    \/ \E p \in RegistryPrefixes : GetOther(p)

SpecRegistries == Init /\ [][NextRegistries]_vars

(***************************************************************************)
(* Properties.                                                             *)
(***************************************************************************)
InSeq(x, seq) == \E k \in 1..Len(seq) : seq[k] = x

\* the discovered identifiers that start with p
Matching(p) == { i \in IndexNames : InSeq(i, _available) /\ startswith(i, p) }

OfGet == last.op = "get"
OfSearch == last.op = "search"
OfCreate == last.op = "create"

\* C1: in a sequential series of get calls, an index that get returns is the
\* one the cache holds; for an identifier that was cached before the call it
\* is the instance that was cached, and the call does not load it from disk;
\* for an identifier that was not, the call loads it from disk.  No identifier
\* ever has a second Index object built for it, and a call leaves every
\* binding of the cache as it was.
C1_GetIdempotent ==
    /\ \A i \in IndexNames : made[i] <= 1
    /\ OfGet =>
        /\ \A i \in DOMAIN last.before : i \in DOMAIN cache /\ cache[i] = last.before[i]
        /\ \A k \in 1..Len(last.read) : last.read[k] \notin DOMAIN last.before
        /\ \A k \in 1..Len(last.out) :
              /\ last.out[k].name \in DOMAIN cache
              /\ last.out[k] = cache[last.out[k].name]
              /\ last.out[k].name \in DOMAIN last.before =>
                    /\ last.out[k] = last.before[last.out[k].name]
                    /\ ~InSeq(last.out[k].name, last.read)
              /\ last.out[k].name \notin DOMAIN last.before =>
                    InSeq(last.out[k].name, last.read)

\* a later get(id) of a series: it returns the index an earlier call cached
C1_Witness ==
    /\ OfGet
    /\ last.arg \in DOMAIN last.before
    /\ last.err = ""
    /\ last.read = <<>>
    /\ \E k \in 1..Len(last.out) : last.out[k] = last.before[last.arg]

\* C2: when threads make the first reference to an identifier at the same
\* time, one Index object is built for it and every caller gets that one.
C2_SingleLoad ==
    /\ \A i \in IndexNames : made[i] <= 1
    /\ \A t, u \in Threads :
          \A k \in 1..Len(th[t].out), j \in 1..Len(th[u].out) :
              th[t].out[k].name = th[u].out[j].name => th[t].out[k] = th[u].out[j]

\* an identifier has its files when its backend file (.faiss or .ann) and its
\* metadata file are in the folder
HasFiles(i) ==
    /\ (i \o <<".", "faiss">> \in DOMAIN disk \/ i \o <<".", "ann">> \in DOMAIN disk)
    /\ i \o <<".", "metadata", ".", "json">> \in DOMAIN disk

\* C3: get(p) returns one Index for each discovered identifier that starts
\* with p and nothing else (the empty list, and no error, when there is none),
\* in a folder where those identifiers have their files.
C3_PrefixGet ==
    (OfGet /\ \A i \in Matching(last.arg) : HasFiles(i)) =>
        /\ last.err = ""
        /\ Len(last.out) = Cardinality(Matching(last.arg))
        /\ { last.out[k].name : k \in 1..Len(last.out) } = Matching(last.arg)

\* the scores of a result list never decrease
Ascending(results) ==
    \A k \in 1..(Len(results) - 1) : results[k][2] <= results[k + 1][2]

\* C4: a successful search over a non-empty target list returns min(n, number
\* of candidates the targets returned) results, in ascending order of score.
C4_MergeTruncation ==
    (OfSearch /\ last.rsp.status = 200 /\ last.rsp.targets # <<>>) =>
        /\ Len(last.rsp.results) = Min(last.n, Len(last.rsp.found))
        /\ Ascending(last.rsp.results)

\* a successful search of two indexes whose joined lists are not in order and
\* are longer than n
C4_Witness ==
    /\ OfSearch
    /\ last.rsp.status = 200
    /\ Len(last.rsp.targets) >= 2
    /\ last.n >= 1
    /\ Len(last.rsp.found) > last.n
    /\ ~Ascending(last.rsp.found)

\* C5: a vector search with a parsable query whose index filter matches no
\* discovered identifier is answered 200 with an empty results list.
C5_EmptyTargets ==
    (/\ OfSearch
     /\ last.mode = "vector"
     /\ json_loads(last.query).ok
     /\ last.index # None
     /\ Matching(last.index) = {}) =>
        /\ last.rsp.status = 200
        /\ last.rsp.results = <<>>

\* C6: a request whose mode is not "vector" is answered 400 "Invalid search
\* mode"; its query is not parsed, no index is resolved, loaded or searched,
\* and the cache is as it was.
C6_InvalidMode ==
    (OfSearch /\ last.mode # "vector") =>
        /\ last.rsp.status = 400
        /\ last.rsp.detail = "Invalid search mode"
        /\ ~last.rsp.parsed
        /\ ~last.rsp.resolved
        /\ last.rsp.read = <<>>
        /\ last.rsp.searched = <<>>
        /\ cache = last.before

\* a request with another mode, a query that is no JSON and an index filter
C6_Witness ==
    /\ OfSearch
    /\ last.mode = "text"
    /\ last.query = "not-json"
    /\ last.index = <<"A">>

\* C7: a vector search whose query is not JSON is answered 400 "Invalid JSON
\* query"; no index is resolved, loaded or searched, and the cache is as it was.
C7_InvalidJson ==
    (OfSearch /\ last.mode = "vector" /\ ~json_loads(last.query).ok) =>
        /\ last.rsp.status = 400
        /\ last.rsp.detail = "Invalid JSON query"
        /\ ~last.rsp.resolved
        /\ last.rsp.read = <<>>
        /\ last.rsp.searched = <<>>
        /\ cache = last.before

\* a vector search with a query that is no JSON and an index filter
C7_Witness ==
    /\ OfSearch
    /\ last.mode = "vector"
    /\ last.query = "not-json"
    /\ last.index = <<"A">>
    /\ last.rsp.status = 400

ValidBatch(vectors) ==
    /\ vectors.isarray
    /\ vectors.dtype = "float32"
    /\ vectors.ndim = 2
    /\ vectors.rows # <<>>

\* C8: create with a number of vectors other than the number of labels raises before it trains, adds
\* or writes anything, and save_dir holds the files it held.
C8_MismatchRejected ==
    (OfCreate /\ Len(last.vectors.rows) # Len(last.labels)) =>
        /\ last.err # ""
        /\ last.ops = <<>>
        /\ saveDir = last.before

\* create with a float32 matrix of two vectors and one label
C8_Witness ==
    /\ OfCreate
    /\ ValidBatch(last.vectors)
    /\ Len(last.vectors.rows) = 2
    /\ Len(last.labels) = 1
    /\ last.fault = "none"
    /\ last.err = "AssertionError"

\* C9: create with a non-empty float32 matrix and as many labels, and no
\* failure of faiss or of the file system, ends without error and leaves the
\* backend file and the metadata file, whose labels are the labels given, as
\* many as the vectors.
C9_ValidBuild ==
    (/\ OfCreate
     /\ ValidBatch(last.vectors)
     /\ Len(last.vectors.rows) = Len(last.labels)
     /\ last.fault = "none") =>
        /\ last.err = ""
        /\ last.name \o <<".", "faiss">> \in DOMAIN saveDir
        /\ last.name \o <<".", "metadata", ".", "json">> \in DOMAIN saveDir
        /\ saveDir[last.name \o <<".", "metadata", ".", "json">>].data = last.labels
        /\ Len(saveDir[last.name \o <<".", "metadata", ".", "json">>].data)
              = Len(last.vectors.rows)

C11_LabelsMatchVectors ==
    callers.adder.pc = "idle" => LabelCount(faiss_index) = VectorCount(faiss_index)

\* a discovered identifier whose .faiss file has no metadata file beside it
MissingPairing(i) ==
    /\ InSeq(i, _available)
    /\ i \o <<".", "faiss">> \in DOMAIN disk
    /\ i \o <<".", "metadata", ".", "json">> \notin DOMAIN disk

\* a discovered identifier with a .faiss file and a list of labels beside it
WellFormed(i) ==
    /\ InSeq(i, _available)
    /\ i \o <<".", "faiss">> \in DOMAIN disk
    /\ i \o <<".", "metadata", ".", "json">> \in DOMAIN disk
    /\ disk[i \o <<".", "metadata", ".", "json">>].fmt = "list"

\* a folder of well-formed identifiers and at least one without its pairing
MixedFolder ==
    /\ \E i \in IndexNames : MissingPairing(i)
    /\ \E i \in IndexNames : WellFormed(i)
    /\ \A i \in IndexNames : InSeq(i, _available) => MissingPairing(i) \/ WellFormed(i)

\* C12: in a folder where an identifier lacks its metadata file and the others
\* are well-formed, the one without is never cached, the service does not go
\* down, a get whose prefix matches only well-formed identifiers returns them
\* all, and a vector search without index filter searches every well-formed
\* identifier.
C12_LoadIsolation ==
    MixedFolder =>
        /\ \A i \in IndexNames : MissingPairing(i) => i \notin DOMAIN cache
        /\ server # "crashed"
        /\ (OfGet /\ \A i \in Matching(last.arg) : WellFormed(i)) =>
              /\ last.err = ""
              /\ { last.out[k].name : k \in 1..Len(last.out) } = Matching(last.arg)
        /\ (OfSearch /\ last.mode = "vector" /\ last.index = None
                /\ json_loads(last.query).ok) =>
              \A i \in IndexNames : WellFormed(i) =>
                  \E k \in 1..Len(last.rsp.targets) : last.rsp.targets[k].name = i

\* C13: a vector search whose query is a vector of another length than the
\* dimensions of its target indexes is answered with a client error (4xx), and
\* the search of no target is called with that vector.
C13_DimsMismatch ==
    (/\ OfSearch
     /\ last.mode = "vector"
     /\ json_loads(last.query).ok
     /\ json_loads(last.query).type = "array"
     /\ Len(json_loads(last.query).val) # Dims
     /\ last.rsp.targets # <<>>) =>
        /\ last.rsp.status \in 400..499
        /\ last.rsp.searched = <<>>

\* C14: no step takes an identifier out of the cache or binds it to another
\* Index object than the one it is bound to.
C14_CacheAppendOnly ==
    [][\A i \in DOMAIN cache : i \in DOMAIN cache' /\ cache'[i] = cache[i]]_vars

\* C15: no call of get, no request and no change of the folder's files changes
\* what available() returns, and get returns indexes of identifiers of that
\* set only.
C15_DiscoverySnapshot ==
    [][/\ available(_available') = available(_available)
       /\ last'.op = "get" =>
             \A k \in 1..Len(last'.out) : InSeq(last'.out[k].name, _available)]_vars

\* a get that names an identifier whose .faiss file was written after the
\* registry was constructed, and that returns no index
C15_Witness ==
    /\ OfGet
    /\ last.arg = <<"B", ".", "1">>
    /\ <<"B", ".", "1", ".", "faiss">> \in DOMAIN disk
    /\ ~InSeq(<<"B", ".", "1">>, _available)
    /\ last.err = ""
    /\ last.out = <<>>

\* the identifier i has a backend file of this kind ("faiss" or "ann") only
OnlyOfKind(i, kind) ==
    /\ i \o <<".", kind>> \in DOMAIN disk
    /\ \A other \in {"faiss", "ann"} \ {kind} : i \o <<".", other>> \notin DOMAIN disk

\* C16: with USE_FAISS_INDEXES (USE_ANNOY_INDEXES) given as 0, an identifier
\* that has a .faiss (.ann) file only is not in available() and is not
\* returned by get.
C16_DisabledKindIgnored ==
    /\ USE_FAISS_INDEXES(environ) = "0" =>
          \A i \in IndexNames : OnlyOfKind(i, "faiss") =>
              /\ ~InSeq(i, available(_available))
              /\ OfGet => \A k \in 1..Len(last.out) : last.out[k].name # i
    /\ USE_ANNOY_INDEXES(environ) = "0" =>
          \A i \in IndexNames : OnlyOfKind(i, "ann") =>
              /\ ~InSeq(i, available(_available))
              /\ OfGet => \A k \in 1..Len(last.out) : last.out[k].name # i

\* the identifier i has both a .faiss file and a .ann file
BothKinds(i) ==
    /\ i \o <<".", "faiss">> \in DOMAIN disk
    /\ i \o <<".", "ann">> \in DOMAIN disk

\* C17: an identifier that has both a .faiss and a .ann file is once in
\* available(); a get over identifiers that have their files returns one Index
\* for it, a FaissIndex that holds the vectors of the .faiss file; and no
\* identifier that has a .faiss file is ever cached as anything else.
C17_FaissPreferred ==
    /\ \A i \in IndexNames : BothKinds(i) =>
          Cardinality({ k \in 1..Len(_available) : _available[k] = i }) = 1
    /\ \A i \in DOMAIN cache : i \o <<".", "faiss">> \in DOMAIN disk =>
          /\ cache[i].cls = "FaissIndex"
          /\ cache[i].vecs = disk[i \o <<".", "faiss">>].data
    /\ (OfGet /\ \A i \in Matching(last.arg) : BothKinds(i) /\ HasFiles(i)) =>
          /\ last.err = ""
          /\ \A i \in Matching(last.arg) :
                /\ Cardinality({ k \in 1..Len(last.out) : last.out[k].name = i }) = 1
                /\ \A k \in 1..Len(last.out) : last.out[k].name = i =>
                      /\ last.out[k].cls = "FaissIndex"
                      /\ last.out[k].vecs = disk[i \o <<".", "faiss">>].data

\* a get of the identifier "A" in a folder that has A.faiss, A.ann and the
\* metadata file, the two backend files holding different vectors
C17_Witness ==
    /\ OfGet
    /\ last.arg = <<"A">>
    /\ Matching(last.arg) = { <<"A">> }
    /\ BothKinds(<<"A">>)
    /\ HasFiles(<<"A">>)
    /\ disk[<<"A", ".", "faiss">>].data # disk[<<"A", ".", "ann">>].data
    /\ Len(last.out) = 1
    /\ last.read = << <<"A">> >>

\* the files of save_dir as the index folder of a registry: a backend file's
\* rows of one dimension are the vectors the registry's index holds
AsFolder(files) ==
    [ f \in DOMAIN files |->
        IF files[f].fmt = "faiss"
        THEN [fmt |-> "faiss",
              data |-> [ i \in 1..Len(files[f].data) |-> files[f].data[i][1] ]]
        ELSE files[f] ]

\* the index `name` of save_dir as IndexStorage(save_dir).get(name) loads it
LoadedFrom(files, name) ==
    _get_from_disk(name, <<>>, [i \in IndexNames |-> 0], AsFolder(files))

\* the labels that json.dump wrote for `name`: config["labels"]
BuiltLabels(files, name) == files[name \o <<".", "metadata", ".", "json">>].data

\* searching idx for the vector q with n: every internal id that the backend
\* returns is resolved to the label at that position of L
ResolvesByPosition(idx, q, n, L) ==
    LET found == BackendSearch(idx.vecs, _preprocess(<<q>>)[1], n)
        r == FaissIndex_search(idx, [ok |-> TRUE, type |-> "array", val |-> q], n)
    IN  /\ r.ok
        /\ Len(r.res) = Len(found)
        /\ \A k \in 1..Len(found) : r.res[k][1] = L[found[k][1] + 1]

\* C18: a create with a valid batch and as many labels leaves the two files
\* of the index; an index whose two files create's _save wrote is loaded by
\* the registry, and searching it for any of its vectors resolves every id
\* the backend returns to the label given at that position at build time.
C18_RoundTrip ==
    /\ (/\ OfCreate
        /\ ValidBatch(last.vectors)
        /\ Len(last.vectors.rows) = Len(last.labels)
        /\ last.fault = "none") =>
           /\ last.name \o <<".", "faiss">> \in DOMAIN saveDir
           /\ last.name \o <<".", "metadata", ".", "json">> \in DOMAIN saveDir
           /\ BuiltLabels(saveDir, last.name) = last.labels
    /\ \A name \in { <<"A">> } :
          (/\ name \o <<".", "faiss">> \in DOMAIN saveDir
           /\ name \o <<".", "metadata", ".", "json">> \in DOMAIN saveDir
           /\ saveDir[name \o <<".", "metadata", ".", "json">>].fmt = "dict") =>
              /\ LoadedFrom(saveDir, name).ok
              /\ \A i \in 1..Len(saveDir[name \o <<".", "faiss">>].data),
                    n \in 1..MaxN :
                    ResolvesByPosition(LoadedFrom(saveDir, name).index,
                                       saveDir[name \o <<".", "faiss">>].data[i], n,
                                       BuiltLabels(saveDir, name))

\* C19: a search never reads the backend while a call of add_vectors is
\* between extending the backend and extending the labels, never finds the
\* backend holding another number of vectors than there are labels, and never
\* fails to resolve an internal id to a label.
C19_SearchSeesWholeAdd ==
    callers.searcher.seen # <<>> =>
        /\ callers.searcher.seen[3] # "labels"
        /\ callers.searcher.seen[1] = callers.searcher.seen[2]
        /\ callers.searcher.err # "IndexError"

\* the search of idx for the query raises
SearchFails(idx, query, n) == ~FaissIndex_search(idx, json_loads(query), n).ok

\* resolving the index filter p against the cache c raises
ResolveFails(p, c) ==
    /\ p # None
    /\ get(p, _available, c, [i \in IndexNames |-> 0], disk).err # ""

\* C20: when resolving or loading the targets of a vector search, or the
\* search of any target, raises, the response is an error and carries no
\* results; a 200 response has the candidates of every target behind it, and
\* a 200 response with no results means the targets returned no candidate.
C20_NoSilentFailure ==
    (OfSearch /\ last.mode = "vector" /\ json_loads(last.query).ok) =>
        /\ (\/ ResolveFails(last.index, last.before)
            \/ \E k \in 1..Len(last.rsp.targets) :
                  SearchFails(last.rsp.targets[k], last.query, last.n)) =>
              /\ last.rsp.status >= 400
              /\ last.rsp.results = <<>>
        /\ last.rsp.status = 200 =>
              /\ last.rsp.found =
                    Concat([ k \in 1..Len(last.rsp.targets) |->
                        FaissIndex_search(last.rsp.targets[k], json_loads(last.query),
                                          last.n).res ])
              /\ last.rsp.results = <<>> => last.rsp.found = <<>>

\* a request over two indexes of which the first returns candidates and the
\* second raises
C20_Witness ==
    /\ OfSearch
    /\ last.mode = "vector"
    /\ json_loads(last.query).ok
    /\ Len(last.rsp.targets) = 2
    /\ FaissIndex_search(last.rsp.targets[1], json_loads(last.query), last.n).ok
    /\ FaissIndex_search(last.rsp.targets[1], json_loads(last.query), last.n).res # <<>>
    /\ SearchFails(last.rsp.targets[2], last.query, last.n)
    /\ last.rsp.status = 500

\* the place of all[j] in the stable ascending sort of all by score: the
\* number of members that have a smaller score, or the same score and a place
\* not after j
Rank(all, j) ==
    Cardinality({ i \in 1..Len(all) :
        \/ all[i][2] < all[j][2]
        \/ all[i][2] = all[j][2] /\ i <= j })

\* idx.search(q, n) of each target of the last request, in the order of T
PerTarget ==
    [ k \in 1..Len(last.rsp.targets) |->
        FaissIndex_search(last.rsp.targets[k], json_loads(last.query), last.n).res ]

\* C21: the results of a successful search are the first n members of the
\* stable ascending sort by score of the concatenation, in the order of the
\* targets, of what each target returns when asked for n.
C21_StableMerge ==
    (OfSearch /\ last.rsp.status = 200) =>
        /\ last.rsp.found = Concat(PerTarget)
        /\ Len(last.rsp.results) = Min(last.n, Len(Concat(PerTarget)))
        /\ \A j \in 1..Len(Concat(PerTarget)) :
              Rank(Concat(PerTarget), j) <= last.n =>
                  last.rsp.results[Rank(Concat(PerTarget), j)] = Concat(PerTarget)[j]

\* a successful search whose targets return two candidates of the same score
\* and different labels, the first of them among the n results
C21_Witness ==
    /\ OfSearch
    /\ last.rsp.status = 200
    /\ \E i, j \in 1..Len(last.rsp.found) :
          /\ i < j
          /\ last.rsp.found[i][2] = last.rsp.found[j][2]
          /\ last.rsp.found[i][1] # last.rsp.found[j][1]
          /\ Rank(last.rsp.found, i) <= last.n

\* the number of times x is a member of seq
Count(x, seq) == Cardinality({ k \in 1..Len(seq) : seq[k] = x })

\* C22: once the service is up, the target list built at startup holds the
\* Index of every discovered identifier once, and a search without index
\* filter searches no index twice.
C22_StartupTargetsOnce ==
    /\ server = "up" =>
          \A i \in IndexNames : InSeq(i, _available) =>
              Cardinality({ k \in 1..Len(indexes) : indexes[k].name = i }) = 1
    /\ (OfSearch /\ last.mode = "vector" /\ last.index = None) =>
          \A k \in 1..Len(last.rsp.searched) :
              Count(last.rsp.searched[k], last.rsp.searched) = 1

\* the place of the call x in the log ops, 0 when it was not made
Place(x, ops) == IF InSeq(x, ops) THEN CHOOSE k \in 1..Len(ops) : ops[k] = x ELSE 0

\* every coordinate of every row is -1, 0 or 1: the rows went through
\* normalize_L2
UnitRows(rows) ==
    \A i \in 1..Len(rows) : \A j \in 1..Len(rows[i]) : rows[i][j] \in {-1, 0, 1}

\* C23: in create, index.add comes after index.train and both after
\* normalize_L2 when normalize is set (which is not called when it is not), the
\* backend is trained on the first n_train vectors of the batch, on all when
\* n_train is None, and what is added is the whole batch.  In add_vectors, the
\* step that trains a backend finds it empty and leaves it empty, the step that
\* adds vectors finds it trained, and both work on the normalised batch.
C23_TrainBeforeAdd ==
    [][/\ last'.op = "create" =>
            /\ InSeq("add", last'.ops) =>
                  /\ 0 < Place("train", last'.ops)
                  /\ Place("train", last'.ops) < Place("add", last'.ops)
                  /\ Len(last'.added) = Len(last'.vectors.rows)
            /\ InSeq("normalize_L2", last'.ops) <=> (last'.normalize /\ last'.ops # <<>>)
            /\ (last'.normalize /\ InSeq("train", last'.ops)) =>
                  /\ Place("normalize_L2", last'.ops) < Place("train", last'.ops)
                  /\ UnitRows(last'.trained)
            /\ (last'.normalize /\ InSeq("add", last'.ops)) => UnitRows(last'.added)
            /\ InSeq("train", last'.ops) =>
                  /\ Len(last'.trained) =
                        (IF last'.n_train = <<>> THEN Len(last'.vectors.rows)
                         ELSE Min(last'.n_train[1], Len(last'.vectors.rows)))
                  /\ \A i \in 1..Len(last'.trained) :
                        last'.trained[i] =
                            (IF last'.normalize
                             THEN normalize_L2(last'.vectors.rows)[i]
                             ELSE last'.vectors.rows[i])
       /\ (faiss_index.made /\ faiss_index._index.vecs # faiss_index'._index.vecs) =>
            /\ faiss_index._index.trained
            /\ UnitRows(callers.adder.X)
       /\ (faiss_index.made /\ faiss_index'._index.trained
              /\ ~faiss_index._index.trained) =>
            /\ faiss_index._index.vecs = <<>>
            /\ faiss_index'._index.vecs = <<>>
            /\ UnitRows(callers.adder.X)]_vars

\* a create of two vectors with normalize set and n_train = 1 that trained and
\* added, after an add_vectors that trained the backend of an object made
\* without one and added to it
C23_Witness ==
    /\ OfCreate
    /\ Len(last.vectors.rows) = 2
    /\ last.n_train = <<1>>
    /\ last.normalize
    /\ InSeq("add", last.ops)
    /\ last.trained # last.added
    /\ faiss_index._id = <<"N">>
    /\ faiss_index._index.trained
    /\ faiss_index._index.vecs # <<>>

\* idx holds what the folder d holds under idx's name
FromFolder(idx, d) ==
    /\ idx.name \o <<".", "faiss">> \in DOMAIN d
    /\ idx.name \o <<".", "metadata", ".", "json">> \in DOMAIN d
    /\ idx.vecs = d[idx.name \o <<".", "faiss">>].data
    /\ idx.items = d[idx.name \o <<".", "metadata", ".", "json">>]

\* C24: with two IndexStorage objects over different folders, every Index that
\* a get of one object returns was loaded from that object's own folder,
\* whatever the other object has loaded and cached before
C24_RegistriesIsolated ==
    /\ (last.op = "get" /\ last.err = "") =>
          \A k \in 1..Len(last.out) : FromFolder(last.out[k], disk)
    /\ (last.op = "get_other" /\ last.err = "") =>
          \A k \in 1..Len(last.out) : FromFolder(last.out[k], other_storage._folder)

\* a request that has changed nothing of the registry and of the target list,
\* has read no index from the folder, and has searched cached instances only
ServedFromCache ==
    /\ cache' = cache
    /\ _available' = _available
    /\ indexes' = indexes
    /\ last'.rsp.read = <<>>
    /\ \A k \in 1..Len(last'.rsp.targets) :
          /\ last'.rsp.targets[k].name \in DOMAIN cache
          /\ last'.rsp.targets[k] = cache[last'.rsp.targets[k].name]

\* C25: once the startup has completed, the cached identifiers are the
\* discovered ones, and every request (with or without index filter, answered
\* or rejected) leaves the cache, the available set and the startup target list
\* as they were, loads nothing from the folder and searches cached instances
C25_ServedFromCache ==
    /\ [](server = "up" => DOMAIN cache = { _available[k] : k \in DOMAIN _available })
    /\ [][(server = "up" /\ last'.op = "search") => ServedFromCache]_vars

\* a request with an index filter was answered from a running server
C25_Witness ==
    /\ server = "up"
    /\ last.op = "search"
    /\ last.index # None
    /\ last.rsp.status = 200
    /\ last.rsp.targets # <<>>
    /\ last.rsp.results # <<>>

====
